---- MODULE Spec2Model ----
(***************************************************************************)
(* Model of ev-oracle: the query command (exact lookup, similarity search  *)
(* with a confidence gate, LLM fallback), the response parser, the add     *)
(* command and the ev_specs table.                                         *)
(*                                                                         *)
(* Conventions.                                                            *)
(*  - A Go string is a sequence of one-character strings, so that the      *)
(*    regular expressions, strings.TrimSpace, strconv.Atoi,                *)
(*    strconv.ParseFloat and SQL LOWER() are computed character by         *)
(*    character.                                                           *)
(*  - A float64 is an integer number of hundredths (75.0 kWh is 7500,      *)
(*    confidence 0.8 is 80).  The numeric tokens of the inputs carry at    *)
(*    most two fractional digits, so nothing is rounded.                   *)
(*  - A *EVSpec is a set: {} is nil, {r} points to the record r.           *)
(*  - An error is a sequence of wrapping contexts, outermost first; <<>>   *)
(*    is the nil error.                                                    *)
(***************************************************************************)
EXTENDS Integers, Sequences, FiniteSets, TLC

VARIABLES
    store,      \* rows of the ev_specs table
    pc,         \* position of the running query command
    args,       \* its command line: make, model, year string
    year,       \* the year parsed by strconv.Atoi
    cfg,        \* the configuration it loaded
    trace,      \* collaborator calls issued and returned by this invocation
    output,     \* the records written by outputSpec
    err,        \* the error runQuery returned
    llmResp,    \* what the LLM provider answered
    dbClient,   \* the connection pool of the query command
    embeddingVector, \* the vector the embedding provider answered with
    results,    \* what SimilaritySearch returned
    queryText,  \* the text the query command had embedded
    responses,  \* the answers the query command has received, in order
    schema,     \* the version of the last migration applied to the database
    upserts,    \* concurrency development: add commands running side by side
    earlier,    \* determinism development: a finished query command, remembered
    last,       \* determinism development: the record the last query printed
    added,      \* add development: the last add command and what it came to
    ptext,      \* parser development: the input text
    pquery,     \* parser development: make, model, year
    presult     \* parser development: what parseEVSpecs returned

vars == <<store, pc, args, year, cfg, trace, output, err, llmResp, dbClient,
          embeddingVector, results, queryText, responses, schema, upserts,
          earlier, last, added, ptext, pquery, presult>>

pipelineVars == <<store, pc, args, year, cfg, trace, output, err, llmResp,
                  dbClient, embeddingVector, results, queryText, responses>>
parserVars == <<ptext, pquery, presult>>
addVars == <<added>>
schemaVars == <<schema>>
upsertVars == <<upserts>>
historyVars == <<earlier, last>>

(***************************************************************************)
(* Bounds of the model                                                     *)
(***************************************************************************)
MaxSegs == 3        \* a parser input is at most this many segments

(***************************************************************************)
(* Program constants (hundredths)                                          *)
(***************************************************************************)
ConfidenceThreshold == 80
LLMConfidenceScore == 50
ExactConfidence == 100

\* dimensions of the vectors of the embedding models and of the column
TextEmbedding3SmallDimension == 1536
NomicEmbedTextDimension == 768
InitSchemaDimension == 1536
UpdateEmbeddingDimension == 768

NoError == <<>>
Nil == {}

(***************************************************************************)
(* Characters and strings                                                  *)
(***************************************************************************)
UpperLetters == <<"A","B","C","D","E","F","G","H","I","J","K","L","M",
                  "N","O","P","Q","R","S","T","U","V","W","X","Y","Z">>
LowerLetters == <<"a","b","c","d","e","f","g","h","i","j","k","l","m",
                  "n","o","p","q","r","s","t","u","v","w","x","y","z">>
DigitChars == <<"0","1","2","3","4","5","6","7","8","9">>

\* unicode.ToLower on one character (SQL LOWER, the (?i) flag)
ToLower(c) ==
    IF \E i \in 1..26 : UpperLetters[i] = c
    THEN LowerLetters[CHOOSE i \in 1..26 : UpperLetters[i] = c]
    ELSE c

Lower(s) == [i \in 1..Len(s) |-> ToLower(s[i])]

\* the class \s of the regexp package
SpaceChars == {" ", "\t", "\n", "\r", "\f"}
\* the characters strings.TrimSpace removes, among those of the inputs
TrimChars == {" ", "\t", "\n", "\r", "\f"}
\* the class [0-9.]
NumChars == {DigitChars[i] : i \in 1..10} \cup {"."}

IsDigit(c) == \E i \in 1..10 : DigitChars[i] = c
DigitVal(c) == (CHOOSE i \in 1..10 : DigitChars[i] = c) - 1

\* the literal lit (lower case) occurs in text at position i, ignoring case
HasPrefixFold(text, i, lit) ==
    /\ i >= 1
    /\ i + Len(lit) - 1 <= Len(text)
    /\ \A j \in 1..Len(lit) : ToLower(text[i + j - 1]) = lit[j]

\* first position at or after i that is not in the class cls
RunEnd(text, i, cls) ==
    CHOOSE j \in i..(Len(text) + 1) :
        /\ \A k \in i..(j - 1) : text[k] \in cls
        /\ (j = Len(text) + 1 \/ text[j] \notin cls)

\* first position at or after i that holds a newline
LineEnd(text, i) ==
    CHOOSE j \in i..(Len(text) + 1) :
        /\ \A k \in i..(j - 1) : text[k] # "\n"
        /\ (j = Len(text) + 1 \/ text[j] = "\n")

\* strings.TrimSpace
TrimSpace(s) ==
    IF \A i \in 1..Len(s) : s[i] \in TrimChars
    THEN <<>>
    ELSE LET a == CHOOSE i \in 1..Len(s) :
                      s[i] \notin TrimChars /\ \A k \in 1..(i - 1) : s[k] \in TrimChars
             b == CHOOSE i \in 1..Len(s) :
                      s[i] \notin TrimChars /\ \A k \in (i + 1)..Len(s) : s[k] \in TrimChars
         IN SubSeq(s, a, b)

RECURSIVE DecVal(_)
DecVal(s) ==
    IF s = <<>> THEN 0
    ELSE DecVal(SubSeq(s, 1, Len(s) - 1)) * 10 + DigitVal(s[Len(s)])

Pow10(n) == IF n = 0 THEN 1 ELSE IF n = 1 THEN 10 ELSE 100

Dots(s) == {i \in 1..Len(s) : s[i] = "."}

\* strconv.ParseFloat(s, 64) on a token of signs, digits and points: the
\* value in hundredths, and whether the token is a float (an optional sign,
\* then digits with at most one point and at least one digit).  Fractional
\* digits beyond the second are below the resolution of the representation.
ParseFloat(s) ==
    LET signed == Len(s) >= 1 /\ s[1] \in {"+", "-"}
        m == IF signed THEN SubSeq(s, 2, Len(s)) ELSE s
        dots == Dots(m)
        p == IF dots = {} THEN Len(m) + 1 ELSE CHOOSE i \in dots : TRUE
        ip == SubSeq(m, 1, p - 1)
        fp == SubSeq(m, p + 1, Len(m))
        hp == IF Len(fp) > 2 THEN SubSeq(fp, 1, 2) ELSE fp
        valid == /\ Cardinality(dots) <= 1
                 /\ Len(ip) + Len(fp) >= 1
                 /\ \A i \in 1..Len(m) : m[i] \in NumChars
        mag == DecVal(ip) * 100 + DecVal(hp) * Pow10(2 - Len(hp))
    IN IF valid
       THEN [ok |-> TRUE, val |-> IF signed /\ s[1] = "-" THEN 0 - mag ELSE mag]
       ELSE [ok |-> FALSE, val |-> 0]

\* strconv.Atoi: an optional sign followed by digits
Atoi(s) ==
    LET signed == Len(s) >= 1 /\ s[1] \in {"+", "-"}
        ds == IF signed THEN SubSeq(s, 2, Len(s)) ELSE s
        valid == Len(ds) >= 1 /\ \A i \in 1..Len(ds) : IsDigit(ds[i])
    IN IF valid
       THEN [ok |-> TRUE,
             val |-> IF signed /\ s[1] = "-" THEN 0 - DecVal(ds) ELSE DecVal(ds)]
       ELSE [ok |-> FALSE, val |-> 0]

(***************************************************************************)
(* The package-level regular expressions of internal/llm                   *)
(***************************************************************************)
\* FindStringSubmatch returns nil, or the whole match followed by the group
NoMatch == <<>>
Submatch(whole, group) == <<whole, group>>

capacityMarker == <<"c","a","p","a","c","i","t","y",":">>
powerMarker == <<"p","o","w","e","r",":">>
chemistryMarker == <<"c","h","e","m","i","s","t","r","y",":">>
kWhUnit == <<"k","w","h">>
kWUnit == <<"k","w">>

\* variant: the group is ([-0-9.]+), a number with its sign
NumberMatchAt_Signed(text, i, marker, unit) ==
    LET a == i + Len(marker)
        b == RunEnd(text, a, SpaceChars)
        c == RunEnd(text, b, NumChars \cup {"-"})
        d == RunEnd(text, c, SpaceChars)
    IN IF /\ HasPrefixFold(text, i, marker)
          /\ c > b
          /\ HasPrefixFold(text, d, unit)
       THEN Submatch(SubSeq(text, i, d + Len(unit) - 1), SubSeq(text, b, c - 1))
       ELSE NoMatch

\* (?i)marker\s*([0-9.]+)\s*unit matched at position i.  The classes \s and
\* [0-9.] are disjoint and neither contains the first letter of the unit, so
\* every repetition takes its maximal run.
NumberMatchAt(text, i, marker, unit) ==
    LET a == i + Len(marker)
        b == RunEnd(text, a, SpaceChars)
        c == RunEnd(text, b, NumChars)
        d == RunEnd(text, c, SpaceChars)
    IN IF /\ HasPrefixFold(text, i, marker)
          /\ c > b
          /\ HasPrefixFold(text, d, unit)
       THEN Submatch(SubSeq(text, i, d + Len(unit) - 1), SubSeq(text, b, c - 1))
       ELSE NoMatch

\* leftmost match of (?i)marker\s*([0-9.]+)\s*unit
FindNumber(text, marker, unit) ==
    LET hits == {i \in 1..Len(text) : NumberMatchAt(text, i, marker, unit) # NoMatch}
    IN IF hits = {} THEN NoMatch
       ELSE NumberMatchAt(text, CHOOSE i \in hits : \A j \in hits : i <= j, marker, unit)

capacityRe(text) == FindNumber(text, capacityMarker, kWhUnit)
powerRe(text) == FindNumber(text, powerMarker, kWUnit)

\* (?i)chemistry:\s*([^\n]+) matched at position i.  \s* is greedy and \s
\* contains the newline: it takes the longest run of white space after which
\* a character other than a newline is left for the group, which then runs
\* to the end of that line.
ChemistryMatchAt(text, i) ==
    LET a == i + Len(chemistryMarker)
        b == RunEnd(text, a, SpaceChars)
        starts == {k \in a..b : k <= Len(text) /\ text[k] # "\n"}
        k == CHOOSE x \in starts : \A y \in starts : y <= x
    IN IF HasPrefixFold(text, i, chemistryMarker) /\ starts # {}
       THEN Submatch(SubSeq(text, i, LineEnd(text, k) - 1),
                     SubSeq(text, k, LineEnd(text, k) - 1))
       ELSE NoMatch

\* leftmost match of chemistryRe
chemistryRe(text) ==
    LET hits == {i \in 1..Len(text) : ChemistryMatchAt(text, i) # NoMatch}
    IN IF hits = {} THEN NoMatch
       ELSE ChemistryMatchAt(text, CHOOSE i \in hits : \A j \in hits : i <= j)

(***************************************************************************)
(* parseEVSpecs                                                            *)
(***************************************************************************)
EVSpec(mk, mdl, yr, cap, pow, chem, conf, src) ==
    [make |-> mk, model |-> mdl, year |-> yr, capacity |-> cap, power |-> pow,
     chemistry |-> chem, confidence |-> conf, source |-> src]

\* the value a numeric field gets from its match: unchanged when the pattern
\* does not match or the token is not a float
NumberField(old, matches) ==
    IF Len(matches) > 1 /\ ParseFloat(matches[2]).ok
    THEN ParseFloat(matches[2]).val
    ELSE old

ChemistryField(old, matches) ==
    IF Len(matches) > 1 THEN TrimSpace(matches[2]) ELSE old

ParseError == <<"failed to extract any specifications from response">>

\* variant: the confidence depends on how many fields were found
parseEVSpecs_GradedConfidence(text, mk, mdl, yr) ==
    LET s0 == EVSpec(mk, mdl, yr, 0, 0, <<>>, LLMConfidenceScore, "llm")
        s1 == [s0 EXCEPT !.capacity = NumberField(s0.capacity, capacityRe(text))]
        s2 == [s1 EXCEPT !.power = NumberField(s1.power, powerRe(text))]
        s3 == [s2 EXCEPT !.chemistry = ChemistryField(s2.chemistry, chemistryRe(text))]
        s4 == [s3 EXCEPT !.confidence =
                  IF s3.capacity # 0 /\ s3.power # 0 /\ s3.chemistry # <<>>
                  THEN LLMConfidenceScore ELSE LLMConfidenceScore - 20]
    IN IF s3.capacity = 0 /\ s3.power = 0 /\ s3.chemistry = <<>>
       THEN [spec |-> Nil, err |-> ParseError]
       ELSE [spec |-> {s4}, err |-> NoError]

\* variant: no validation of the extracted record
parseEVSpecs_NoValidation(text, mk, mdl, yr) ==
    LET s0 == EVSpec(mk, mdl, yr, 0, 0, <<>>, LLMConfidenceScore, "llm")
        s1 == [s0 EXCEPT !.capacity = NumberField(s0.capacity, capacityRe(text))]
        s2 == [s1 EXCEPT !.power = NumberField(s1.power, powerRe(text))]
        s3 == [s2 EXCEPT !.chemistry = ChemistryField(s2.chemistry, chemistryRe(text))]
    IN [spec |-> {s3}, err |-> NoError]

\* variant: the validation rejects a record in which any field is missing
parseEVSpecs_AnyMissing(text, mk, mdl, yr) ==
    LET s0 == EVSpec(mk, mdl, yr, 0, 0, <<>>, LLMConfidenceScore, "llm")
        s1 == [s0 EXCEPT !.capacity = NumberField(s0.capacity, capacityRe(text))]
        s2 == [s1 EXCEPT !.power = NumberField(s1.power, powerRe(text))]
        s3 == [s2 EXCEPT !.chemistry = ChemistryField(s2.chemistry, chemistryRe(text))]
    IN IF s3.capacity = 0 \/ s3.power = 0 \/ s3.chemistry = <<>>
       THEN [spec |-> Nil, err |-> ParseError]
       ELSE [spec |-> {s3}, err |-> NoError]

\* variant: the extraction stops at the first field that is not found
parseEVSpecs_AbortOnMiss(text, mk, mdl, yr) ==
    LET s0 == EVSpec(mk, mdl, yr, 0, 0, <<>>, LLMConfidenceScore, "llm")
        s1 == [s0 EXCEPT !.capacity = NumberField(s0.capacity, capacityRe(text))]
        s2 == IF s1.capacity = 0 THEN s1
              ELSE [s1 EXCEPT !.power = NumberField(s1.power, powerRe(text))]
        s3 == IF s2.power = 0 THEN s2
              ELSE [s2 EXCEPT !.chemistry = ChemistryField(s2.chemistry, chemistryRe(text))]
    IN IF s3.capacity = 0 /\ s3.power = 0 /\ s3.chemistry = <<>>
       THEN [spec |-> Nil, err |-> ParseError]
       ELSE [spec |-> {s3}, err |-> NoError]

parseEVSpecs(text, mk, mdl, yr) ==
    LET s0 == EVSpec(mk, mdl, yr, 0, 0, <<>>, LLMConfidenceScore, "llm")
        s1 == [s0 EXCEPT !.capacity = NumberField(s0.capacity, capacityRe(text))]
        s2 == [s1 EXCEPT !.power = NumberField(s1.power, powerRe(text))]
        s3 == [s2 EXCEPT !.chemistry = ChemistryField(s2.chemistry, chemistryRe(text))]
    IN IF s3.capacity = 0 /\ s3.power = 0 /\ s3.chemistry = <<>>
       THEN [spec |-> Nil, err |-> ParseError]
       ELSE [spec |-> {s3}, err |-> NoError]

(***************************************************************************)
(* internal/llm: the fallback provider                                     *)
(***************************************************************************)
\* what the HTTP round trip of the provider came to
LLMFailures == {"transport", "status"}

queryClaude(resp, mk, mdl, yr) ==
    IF resp.kind = "transport" THEN [spec |-> Nil, err |-> <<"failed to send request">>]
    ELSE IF resp.kind = "status" THEN [spec |-> Nil, err |-> <<"claude API error">>]
    ELSE IF resp.kind = "empty" THEN [spec |-> Nil, err |-> <<"no content in response">>]
    ELSE LET parsed == parseEVSpecs(resp.text, mk, mdl, yr)
         IN IF parsed.err # NoError
            THEN [spec |-> Nil, err |-> <<"failed to parse response">> \o parsed.err]
            ELSE [spec |-> parsed.spec, err |-> NoError]

queryOllama(resp, mk, mdl, yr) ==
    IF resp.kind = "transport" THEN [spec |-> Nil, err |-> <<"failed to send request">>]
    ELSE IF resp.kind = "status" THEN [spec |-> Nil, err |-> <<"ollama API error">>]
    ELSE IF resp.kind = "empty" \/ resp.text = <<>>
         THEN [spec |-> Nil, err |-> <<"no response from ollama">>]
    ELSE LET parsed == parseEVSpecs(resp.text, mk, mdl, yr)
         IN IF parsed.err # NoError
            THEN [spec |-> Nil, err |-> <<"failed to parse response">> \o parsed.err]
            ELSE [spec |-> parsed.spec, err |-> NoError]

\* llm.NewWithProvider: the service keeps the provider and the key as given
llmNewWithProvider(provider, anthropicKey) ==
    [provider |-> provider, anthropicKey |-> anthropicKey]

\* the switch of Service.QueryEVSpecs: every provider but "ollama" is Claude
LLMBackend(provider) == IF provider = "ollama" THEN "ollama" ELSE "claude"

QueryEVSpecs(provider, resp, mk, mdl, yr) ==
    IF LLMBackend(provider) = "ollama" THEN queryOllama(resp, mk, mdl, yr)
    ELSE queryClaude(resp, mk, mdl, yr)

(***************************************************************************)
(* internal/embedding: the embedding provider                              *)
(***************************************************************************)
EmbeddingFailures == {"transport", "status"}

getOpenAIEmbedding(resp) ==
    IF resp.kind = "transport" THEN [vec |-> <<>>, err |-> <<"failed to send request">>]
    ELSE IF resp.kind = "status" THEN [vec |-> <<>>, err |-> <<"OpenAI API error">>]
    ELSE [vec |-> resp.vec, err |-> NoError]

getOllamaEmbedding(resp) ==
    IF resp.kind = "transport" THEN [vec |-> <<>>, err |-> <<"failed to send request">>]
    ELSE IF resp.kind = "status" THEN [vec |-> <<>>, err |-> <<"Ollama API error">>]
    ELSE [vec |-> resp.vec, err |-> NoError]

\* the switch of Service.GetEmbedding: every provider but "ollama" is OpenAI
EmbeddingBackend(provider) == IF provider = "ollama" THEN "ollama" ELSE "openai"

GetEmbedding(provider, resp) ==
    IF EmbeddingBackend(provider) = "ollama"
    THEN getOllamaEmbedding(resp)
    ELSE getOpenAIEmbedding(resp)

\* the dimension of the vectors of the model behind a backend
BackendDimension(backend) ==
    IF backend = "ollama" THEN NomicEmbedTextDimension ELSE TextEmbedding3SmallDimension

\* embedding.New(apiKey): the provider is OpenAI
New(apiKey) == [provider |-> "openai", openAIKey |-> apiKey]

\* embedding.NewWithProvider: the service keeps the provider and the key as
\* given
NewWithProvider(provider, openAIKey) == [provider |-> provider, openAIKey |-> openAIKey]

NoService == <<>>

(***************************************************************************)
(* internal/models: configuration                                          *)
(***************************************************************************)
NewConfig(env) ==
    LET c == [DatabaseURL |-> env.NEON_DATABASE_URL,
              OpenAIAPIKey |-> env.OPENAI_API_KEY,
              AnthropicAPIKey |-> env.ANTHROPIC_API_KEY,
              EmbeddingProvider |-> IF env.EMBEDDING_PROVIDER = "" THEN "openai"
                                    ELSE env.EMBEDDING_PROVIDER,
              LLMProvider |-> IF env.LLM_PROVIDER = "" THEN "ollama"
                              ELSE env.LLM_PROVIDER]
    IN IF c.DatabaseURL = ""
       THEN [cfg |-> <<>>, err |-> <<"NEON_DATABASE_URL is required">>]
       ELSE IF c.EmbeddingProvider = "openai" /\ c.OpenAIAPIKey = ""
       THEN [cfg |-> <<>>, err |-> <<"OPENAI_API_KEY is required when using OpenAI embeddings">>]
       ELSE IF c.LLMProvider = "claude" /\ c.AnthropicAPIKey = ""
       THEN [cfg |-> <<>>, err |-> <<"ANTHROPIC_API_KEY is required when using Claude LLM">>]
       ELSE [cfg |-> c, err |-> NoError]

(***************************************************************************)
(* internal/db: the ev_specs table                                         *)
(***************************************************************************)
Row(mk, mdl, yr, cap, pow, chem, emb) ==
    [make |-> mk, model |-> mdl, year |-> yr, capacity_kwh |-> cap,
     power_kw |-> pow, chemistry |-> chem, embedding |-> emb]

\* fmt.Sprintf("%g", v) of a component without a fractional part
RECURSIVE FormatNat(_)
FormatNat(n) ==
    IF n < 10 THEN <<DigitChars[n + 1]>>
    ELSE FormatNat(n \div 10) \o <<DigitChars[(n % 10) + 1]>>

FormatG(v) == IF v < 0 THEN <<"-">> \o FormatNat(0 - v) ELSE FormatNat(v)

RECURSIVE Join(_)
Join(strs) ==
    IF Len(strs) = 0 THEN <<>>
    ELSE IF Len(strs) = 1 THEN strs[1]
    ELSE strs[1] \o <<",">> \o Join(Tail(strs))

\* the pgvector literal the client sends: [1,2,3]
embeddingStr(embedding) ==
    <<"[">> \o Join([i \in 1..Len(embedding) |-> FormatG(embedding[i])]) \o <<"]">>

RECURSIVE Split(_)
Split(s) ==
    IF \A i \in 1..Len(s) : s[i] # ","
    THEN <<s>>
    ELSE LET p == CHOOSE i \in 1..Len(s) : s[i] = "," /\ \A k \in 1..(i - 1) : s[k] # ","
         IN <<SubSeq(s, 1, p - 1)>> \o Split(SubSeq(s, p + 1, Len(s)))

\* $n::vector, the server reading the literal back
VectorIn(str) ==
    LET parts == Split(SubSeq(str, 2, Len(str) - 1))
    IN [i \in 1..Len(parts) |-> Atoi(parts[i]).val]

Dot(a, b) == IF Len(a) = 0 THEN 0 ELSE a[1] * b[1] + a[2] * b[2]

ISqrt(n) == CHOOSE r \in 0..n : r * r <= n /\ (r + 1) * (r + 1) > n

Norm(a) == ISqrt(Dot(a, a))

\* the operator <=> of pgvector: cosine distance, in hundredths
CosineDistance(a, b) == 100 - ((100 * Dot(a, b)) \div (Norm(a) * Norm(b)))

NullEmbedding == <<>>

\* the rows that hold a vector
Embedded(rows) == {r \in rows : r.embedding # NullEmbedding}

\* the type of the column embedding after the migrations up to version:
\* vector(1536) by 000001, vector(768) by 000002
ColumnDimension(version) ==
    IF version = 2 THEN UpdateEmbeddingDimension ELSE InitSchemaDimension

\* $n::vector written to the column: the table exists and the vector has
\* the dimension of the column
ColumnAccepts(version, dimension) ==
    version # 0 /\ ColumnDimension(version) = dimension

\* embedding <=> $1::vector over the rows that hold a vector: every one of
\* them has the dimension of the column, which the operator requires of the
\* other operand as well
Comparable(version, rows, dimension) ==
    version # 0 /\ (Embedded(rows) = {} \/ ColumnDimension(version) = dimension)

\* the rows SELECT ... WHERE LOWER(make) = LOWER($1) AND LOWER(model) =
\* LOWER($2) AND year = $3 yields
ExactRows(rows, mk, mdl, yr) ==
    {r \in rows : Lower(r.make) = Lower(mk) /\ Lower(r.model) = Lower(mdl) /\ r.year = yr}

\* The outcomes of GetByMakeModelYear: QueryRow scans the first row of the
\* result, whose order the store decides.
GetByMakeModelYear(rows, fault, mk, mdl, yr) ==
    IF fault
    THEN {[spec |-> Nil, err |-> <<"failed to query spec">>]}
    ELSE IF ExactRows(rows, mk, mdl, yr) = {}
    THEN {[spec |-> Nil, err |-> NoError]}
    ELSE {[spec |-> {EVSpec(r.make, r.model, r.year, r.capacity_kwh, r.power_kw,
                            r.chemistry, ExactConfidence, "database")},
           err |-> NoError] : r \in ExactRows(rows, mk, mdl, yr)}

\* variant: the rows are ordered by descending distance
SimilaritySearch_Farthest(rows, fault, embedding, limit) ==
    IF fault
    THEN {[specs |-> <<>>, err |-> <<"failed to query database">>]}
    ELSE UNION {
        LET cand == {r \in rows : r.embedding # NullEmbedding}
            dist(r) == CosineDistance(r.embedding, q)
            n == IF Cardinality(cand) < limit THEN Cardinality(cand) ELSE limit
            orders == {s \in [1..n -> cand] :
                          /\ \A i, j \in 1..n : i < j => s[i] # s[j] /\ dist(s[i]) >= dist(s[j])
                          /\ \A r \in cand : (\A i \in 1..n : s[i] # r) =>
                                 \A i \in 1..n : dist(s[i]) >= dist(r)}
            scan(r) == EVSpec(r.make, r.model, r.year, r.capacity_kwh, r.power_kw,
                              r.chemistry, 100 - dist(r), "database")
        IN {[specs |-> [i \in 1..n |-> scan(s[i])], err |-> NoError] : s \in orders}
        : q \in {VectorIn(embeddingStr(embedding))}}

\* The outcomes of SimilaritySearch: the first limit rows with an embedding,
\* by ascending cosine distance from q, the vector the server read from the
\* literal; the store orders rows at the same distance.
SimilaritySearch(rows, fault, embedding, limit) ==
    IF fault
    THEN {[specs |-> <<>>, err |-> <<"failed to query database">>]}
    ELSE UNION {
        LET cand == {r \in rows : r.embedding # NullEmbedding}
            dist(r) == CosineDistance(r.embedding, q)
            n == IF Cardinality(cand) < limit THEN Cardinality(cand) ELSE limit
            orders == {s \in [1..n -> cand] :
                          /\ \A i, j \in 1..n : i < j => s[i] # s[j] /\ dist(s[i]) <= dist(s[j])
                          /\ \A r \in cand : (\A i \in 1..n : s[i] # r) =>
                                 \A i \in 1..n : dist(s[i]) <= dist(r)}
            scan(r) == EVSpec(r.make, r.model, r.year, r.capacity_kwh, r.power_kw,
                              r.chemistry, 100 - dist(r), "database")
        IN {[specs |-> [i \in 1..n |-> scan(s[i])], err |-> NoError] : s \in orders}
        : q \in {VectorIn(embeddingStr(embedding))}}

\* variant: a plain INSERT, without the ON CONFLICT clause and the constraint
InsertEVSpec_Append(rows, fault, spec, embedding) ==
    LET new == Row(spec.make, spec.model, spec.year, spec.capacity, spec.power,
                   spec.chemistry, VectorIn(embeddingStr(embedding)))
    IN IF fault \/ Len(embedding) = 0
       THEN [rows |-> rows, err |-> <<"failed to insert spec">>]
       ELSE [rows |-> rows \cup {new}, err |-> NoError]

\* INSERT ... ON CONFLICT (make, model, year) DO UPDATE.  The statement
\* fails as a whole when the server refuses it; it refuses the literal [] of
\* an empty slice, which is no vector.
InsertEVSpec(rows, fault, spec, embedding) ==
    LET new == Row(spec.make, spec.model, spec.year, spec.capacity, spec.power,
                   spec.chemistry, VectorIn(embeddingStr(embedding)))
        conflict == {r \in rows : r.make = spec.make /\ r.model = spec.model
                                   /\ r.year = spec.year}
    IN IF fault \/ Len(embedding) = 0
       THEN [rows |-> rows, err |-> <<"failed to insert spec">>]
       ELSE [rows |-> (rows \ conflict) \cup {new}, err |-> NoError]

(***************************************************************************)
(* Inputs                                                                  *)
(***************************************************************************)
Tesla == <<"T","e","s","l","a">>
TeslaLower == <<"t","e","s","l","a">>
Model3 == <<"M","3">>
NMC == <<"N","M","C">>
LFP == <<"L","F","P">>

SegCapacity == <<"C","a","p","a","c","i","t","y",":"," ","1","3","5"," ","k","W","h">>
SegPower == <<"P","o","w","e","r",":"," ","2","0","0"," ","k","W">>
SegChemistry == <<"C","h","e","m","i","s","t","r","y",":"," ","N","M","C">>
SegCapacityZero == <<"C","a","p","a","c","i","t","y",":"," ","0"," ","k","W","h">>
SegCapacityBad == <<"c","a","p","a","c","i","t","y",":","1",".","2",".","3","k","w","h">>
SegCapacityNeg == <<"C","a","p","a","c","i","t","y",":"," ","-","5"," ","k","W","h">>
SegPowerUpper == <<"P","O","W","E","R",":"," ","7",".","5"," ","K","W">>
SegChemistryBare == <<"C","h","e","m","i","s","t","r","y",":">>
SegNewline == <<"\n">>
SegSpace == <<" ">>
SegSorry == <<"S","o","r","r","y">>

Segments == {SegCapacity, SegPower, SegChemistry, SegCapacityZero, SegCapacityBad,
             SegCapacityNeg,
             SegPowerUpper, SegChemistryBare, SegNewline, SegSpace, SegSorry}

RECURSIVE TextsOf(_)
TextsOf(n) ==
    IF n = 0 THEN {<<>>}
    ELSE LET shorter == TextsOf(n - 1)
         IN shorter \cup {t \o s : t \in shorter, s \in Segments}

\* the texts the parser is run on
Texts == TextsOf(MaxSegs)

\* the answer of the end-to-end fallback scenario
ExampleText == SegCapacity \o SegNewline \o SegPower \o SegNewline \o SegChemistry

\* command lines: make, model and the year argument
YearStrs == {<<"2","0","2","3">>, <<"2","0","2","2">>, <<"2","0","x","3">>}
ArgSets == [make : {Tesla, TeslaLower}, model : {Model3}, year : YearStrs]

\* flags of the add command
Capacities == {7500}
Powers == {28300}
Chemistries == {NMC}

\* environments of an invocation
Env(db, openai, anthropic, emb, llm) ==
    [NEON_DATABASE_URL |-> db, OPENAI_API_KEY |-> openai, ANTHROPIC_API_KEY |-> anthropic,
     EMBEDDING_PROVIDER |-> emb, LLM_PROVIDER |-> llm]

DefaultEnv == Env("postgres://neon", "sk", "sk-ant", "", "")
ClaudeEnv == Env("postgres://neon", "sk", "sk-ant", "openai", "claude")
NoDatabaseEnv == Env("", "sk", "sk-ant", "", "")
Envs == {DefaultEnv, ClaudeEnv, NoDatabaseEnv}

\* environments that name other providers, without API keys
OllamaEnv == Env("postgres://neon", "", "", "ollama", "ollama")
OtherProvidersEnv == Env("postgres://neon", "", "", "cohere", "gpt")
NoKeysEnv == Env("postgres://neon", "", "", "", "claude")
ProviderEnvs == {DefaultEnv, ClaudeEnv, OllamaEnv, OtherProvidersEnv, NoKeysEnv}

\* answers of the embedding provider
Vectors == {<<5, 0>>, <<4, 3>>, <<-3, 4>>}
EmbeddingResponses ==
    [kind : EmbeddingFailures, vec : {<<>>}] \cup [kind : {"vector"}, vec : Vectors]

\* invocations of the add command: the ones that reach the insert, for the
\* vehicles of model year 2023, and one for each way the command fails
AddInput(a, env, reachable, resp, fault) ==
    [a : a, capacity : Capacities, power : Powers, chemistry : Chemistries,
     env : env, reachable : reachable, resp : resp, fault : fault]

Args2023 == [make : {Tesla, TeslaLower}, model : {Model3}, year : {<<"2","0","2","3">>}]
OneArgs == {[make |-> Tesla, model |-> Model3, year |-> <<"2","0","2","3">>]}
BadYearArgs == {[make |-> Tesla, model |-> Model3, year |-> <<"2","0","x","3">>]}
VectorResponses == [kind : {"vector"}, vec : Vectors]
OneVector == {[kind |-> "vector", vec |-> <<5, 0>>]}

AddInputs ==
    AddInput(Args2023, {DefaultEnv}, {TRUE}, VectorResponses, {FALSE})
    \cup AddInput(BadYearArgs, {DefaultEnv}, {TRUE}, OneVector, {FALSE})
    \cup AddInput(OneArgs, {NoDatabaseEnv}, {TRUE}, OneVector, {FALSE})
    \cup AddInput(OneArgs, {DefaultEnv}, {FALSE}, OneVector, {FALSE})
    \cup AddInput(OneArgs, {DefaultEnv}, {TRUE}, [kind : EmbeddingFailures, vec : {<<>>}], {FALSE})
    \cup AddInput(OneArgs, {DefaultEnv}, {TRUE}, OneVector, {TRUE})

\* the add command with other flags, and for a vehicle of another model year
Args2022 == {[make |-> Tesla, model |-> Model3, year |-> <<"2","0","2","2">>]}

\* the provider answers with a record that holds no numbers
NoNumbers == {[kind |-> "vector", vec |-> <<>>]}

AddCommands ==
    AddInputs
    \cup AddInput(OneArgs, {DefaultEnv}, {TRUE}, NoNumbers, {FALSE})
    \cup [a : Args2023, capacity : {6000}, power : {17000}, chemistry : {LFP},
          env : {DefaultEnv}, reachable : {TRUE}, resp : VectorResponses, fault : {FALSE}]
    \cup [a : Args2022, capacity : {6000}, power : {17000}, chemistry : {LFP},
          env : {DefaultEnv}, reachable : {TRUE}, resp : OneVector, fault : {FALSE}]

\* a row that was loaded into the table without an embedding: the column
\* is nullable
LegacyRow == Row(Tesla, Model3, 2021, 6000, 17000, LFP, NullEmbedding)

\* the table when the first command starts
InitialStores == {{}, {LegacyRow}}

\* tables the add command leaves behind
RowTesla == Row(Tesla, Model3, 2023, 7500, 28300, NMC, <<4, 3>>)
RowTeslaLower == Row(TeslaLower, Model3, 2023, 6000, 17000, LFP, <<5, 0>>)
QueryStores == InitialStores \cup {{RowTesla}, {RowTesla, RowTeslaLower, LegacyRow}}

\* answers of the fallback provider
LLMTexts == {ExampleText, SegChemistry, SegSorry}
LLMResponses ==
    [kind : LLMFailures, text : {<<>>}] \cup [kind : {"text"}, text : LLMTexts]

Queries == {[make |-> Tesla, model |-> Model3, year |-> 2023],
            [make |-> TeslaLower, model |-> Model3, year |-> 2022]}

(***************************************************************************)
(* The parser on its own: parseEVSpecs applied to every text               *)
(***************************************************************************)
NotParsed == [spec |-> Nil, err |-> NoError]
NoResponse == [kind |-> "none", text |-> <<>>]

\* no command is running
IdleCommand ==
    /\ pc = "idle"
    /\ args = <<>>
    /\ year = 0
    /\ cfg = <<>>
    /\ trace = <<>>
    /\ output = {}
    /\ err = NoError
    /\ llmResp = NoResponse
    /\ dbClient = "nil"
    /\ embeddingVector = <<>>
    /\ results = <<>>
    /\ queryText = <<>>
    /\ responses = <<>>

NoAdd == <<>>
NoUpserts == <<>>
NoInvocation == <<>>

\* the table as the first migration creates it; no add commands side by
\* side, no query command remembered
Settled ==
    /\ schema = 1
    /\ upserts = NoUpserts
    /\ earlier = NoInvocation
    /\ last = Nil

IdlePipeline ==
    /\ store = {}
    /\ IdleCommand
    /\ added = NoAdd
    /\ Settled

ParseInit ==
    /\ IdlePipeline
    /\ ptext \in Texts
    /\ pquery \in Queries
    /\ presult = NotParsed

Parse ==
    /\ presult = NotParsed
    /\ presult' = parseEVSpecs(ptext, pquery.make, pquery.model, pquery.year)
    /\ UNCHANGED <<ptext, pquery>>
    /\ UNCHANGED pipelineVars
    /\ UNCHANGED addVars
    /\ UNCHANGED <<schemaVars, upsertVars, historyVars>>

ParseNext == Parse

ParseSpec == ParseInit /\ [][ParseNext]_vars

(***************************************************************************)
(* cmd: the query command, one step per collaborator round trip            *)
(***************************************************************************)
CallEvent(op) == <<"call", op>>
ReturnEvent(op, e) == <<"return", op, IF e = NoError THEN "ok" ELSE "error">>

\* return fmt.Errorf(...)
Fail(e) == [pc |-> "done", output |-> Nil, err |-> e]
\* return outputSpec(spec)
Output(spec) == [pc |-> "done", output |-> spec, err |-> NoError]
\* the next collaborator call
Call(op) == [pc |-> op, output |-> Nil, err |-> NoError]

\* embedding.BuildQueryText: fmt.Sprintf("%s %s %d battery specifications")
BatterySpecifications ==
    <<" ","b","a","t","t","e","r","y"," ",
      "s","p","e","c","i","f","i","c","a","t","i","o","n","s">>

\* the verb %d
FormatInt(n) == IF n < 0 THEN <<"-">> \o FormatNat(0 - n) ELSE FormatNat(n)

BuildQueryText(mk, mdl, yr) ==
    mk \o <<" ">> \o mdl \o <<" ">> \o FormatInt(yr) \o BatterySpecifications

\* variant: the year is validated after the configuration is loaded and the
\* database is connected
startQuery_LateValidation(a, env, reachable) ==
    LET y == Atoi(a.year)
        c == NewConfig(env)
    IN IF c.err # NoError
       THEN [d |-> Fail(<<"failed to load configuration">> \o c.err),
             year |-> y.val, cfg |-> <<>>, db |-> "nil"]
       ELSE IF ~reachable
       THEN [d |-> Fail(<<"failed to connect to database", "failed to ping database">>),
             year |-> y.val, cfg |-> c.cfg, db |-> "nil"]
       ELSE IF ~y.ok
       THEN [d |-> Fail(<<"invalid year">>), year |-> 0, cfg |-> c.cfg, db |-> "closed"]
       ELSE [d |-> Call("GetByMakeModelYear"), year |-> y.val, cfg |-> c.cfg, db |-> "open"]

\* runQuery up to the exact lookup
startQuery(a, env, reachable) ==
    LET y == Atoi(a.year)
        c == NewConfig(env)
    IN IF ~y.ok THEN [d |-> Fail(<<"invalid year">>), year |-> 0, cfg |-> <<>>, db |-> "nil"]
       ELSE IF c.err # NoError
       THEN [d |-> Fail(<<"failed to load configuration">> \o c.err),
             year |-> y.val, cfg |-> <<>>, db |-> "nil"]
       ELSE IF ~reachable
       THEN [d |-> Fail(<<"failed to connect to database", "failed to ping database">>),
             year |-> y.val, cfg |-> c.cfg, db |-> "nil"]
       ELSE [d |-> Call("GetByMakeModelYear"), year |-> y.val, cfg |-> c.cfg, db |-> "open"]

\* variant: an exact hit is not returned, the pipeline goes on to the search
afterGetByMakeModelYear_IgnoreHit(res) ==
    IF res.err # NoError THEN Fail(<<"database query error">> \o res.err)
    ELSE Call("GetEmbedding")

\* variant: after an exact miss the search is requested without an embedding
afterGetByMakeModelYear_SkipEmbedding(res) ==
    IF res.err # NoError THEN Fail(<<"database query error">> \o res.err)
    ELSE IF res.spec # Nil THEN Output(res.spec)
    ELSE Call("SimilaritySearch")

\* runQuery from the answer of the exact lookup to the embedding request
afterGetByMakeModelYear(res) ==
    IF res.err # NoError THEN Fail(<<"database query error">> \o res.err)
    ELSE IF res.spec # Nil THEN Output(res.spec)
    ELSE Call("GetEmbedding")

\* variant: an embedding failure degrades to the fallback provider
afterGetEmbedding_Degrade(res) ==
    IF res.err # NoError THEN Call("QueryEVSpecs")
    ELSE Call("SimilaritySearch")

\* runQuery from the answer of the embedding provider to the search
afterGetEmbedding(res) ==
    IF res.err # NoError THEN Fail(<<"failed to get embedding">> \o res.err)
    ELSE Call("SimilaritySearch")

\* variant: the gate compares with > instead of >=
afterSimilaritySearch_Strict(res) ==
    IF res.err # NoError THEN Fail(<<"similarity search error">> \o res.err)
    ELSE IF Len(res.specs) > 0 /\ res.specs[1].confidence > ConfidenceThreshold
    THEN Output({res.specs[1]})
    ELSE Call("QueryEVSpecs")

\* variant: a failed search counts as a miss
afterSimilaritySearch_ErrorIsMiss(res) ==
    IF Len(res.specs) > 0 /\ res.specs[1].confidence >= ConfidenceThreshold
    THEN Output({res.specs[1]})
    ELSE Call("QueryEVSpecs")

\* variant: the nearest record is output whatever its confidence
afterSimilaritySearch_AnyResult(res) ==
    IF res.err # NoError THEN Fail(<<"similarity search error">> \o res.err)
    ELSE IF Len(res.specs) > 0
    THEN Output({res.specs[1]})
    ELSE Call("QueryEVSpecs")

\* runQuery from the answer of the search to the fallback request
afterSimilaritySearch(res) ==
    IF res.err # NoError THEN Fail(<<"similarity search error">> \o res.err)
    ELSE IF Len(res.specs) > 0 /\ res.specs[1].confidence >= ConfidenceThreshold
    THEN Output({res.specs[1]})
    ELSE Call("QueryEVSpecs")

\* variant: a failed fallback request is sent again
afterQueryEVSpecs_Retry(res) ==
    IF res.err # NoError THEN Call("QueryEVSpecs")
    ELSE Output(res.spec)

\* variant: the error of the fallback provider is returned as it is
afterQueryEVSpecs_Unwrapped(res) ==
    IF res.err # NoError THEN Fail(res.err)
    ELSE Output(res.spec)

\* variant: a failed fallback request yields a record without values
\* together with the error
afterQueryEVSpecs_PartialRecord(res) ==
    IF res.err # NoError
    THEN [pc |-> "done",
          output |-> {EVSpec(args.make, args.model, year, 0, 0, <<>>, LLMConfidenceScore, "llm")},
          err |-> <<"LLM query error">> \o res.err]
    ELSE Output(res.spec)

\* variant: the process keeps the record it printed last and answers with
\* it instead of the record of the fallback provider
afterQueryEVSpecs_Memo(res) ==
    IF res.err # NoError THEN Fail(<<"LLM query error">> \o res.err)
    ELSE IF last # Nil THEN [pc |-> "done", output |-> last, err |-> NoError]
    ELSE Output(res.spec)

\* runQuery from the answer of the fallback provider to its end
afterQueryEVSpecs(res) ==
    IF res.err # NoError THEN Fail(<<"LLM query error">> \o res.err)
    ELSE Output(res.spec)

\* the effect of a step of runQuery that consumed the answer of the call op,
\* which came with the error e
Continue(op, e, d) ==
    /\ pc' = d.pc
    /\ output' = d.output
    /\ err' = d.err
    /\ trace' = trace \o <<ReturnEvent(op, e)>> \o
                 (IF d.pc = "done" THEN <<>> ELSE <<CallEvent(d.pc)>>)
    /\ dbClient' = IF d.pc = "done" THEN "closed" ELSE dbClient
    /\ queryText' = IF d.pc = "GetEmbedding"
                    THEN BuildQueryText(args.make, args.model, year)
                    ELSE queryText

\* the query command is started with one of the command lines A in one of
\* the environments E
QueryStartOn(A, E) ==
    /\ pc = "idle"
    /\ \E a \in A, env \in E, reachable \in BOOLEAN :
         \E s \in {startQuery(a, env, reachable)} :
            /\ responses' = <<[env |-> env, reachable |-> reachable]>>
            /\ args' = a
            /\ year' = s.year
            /\ cfg' = s.cfg
            /\ dbClient' = s.db
            /\ pc' = s.d.pc
            /\ output' = s.d.output
            /\ err' = s.d.err
            /\ trace' = IF s.d.pc = "done" THEN <<>> ELSE <<CallEvent(s.d.pc)>>
    /\ UNCHANGED <<store, llmResp, embeddingVector, results, queryText>>
    /\ UNCHANGED parserVars
    /\ UNCHANGED addVars
    /\ UNCHANGED <<schemaVars, upsertVars, historyVars>>

QueryStart == QueryStartOn(ArgSets, Envs)

LookupReturn ==
    /\ pc = "GetByMakeModelYear"
    /\ \E fault \in BOOLEAN :
         \E res \in GetByMakeModelYear(store, fault, args.make, args.model, year) :
            /\ responses' = Append(responses, res)
            /\ Continue("GetByMakeModelYear", res.err, afterGetByMakeModelYear(res))
    /\ UNCHANGED <<store, args, year, cfg, llmResp, embeddingVector, results>>
    /\ UNCHANGED parserVars
    /\ UNCHANGED addVars
    /\ UNCHANGED <<schemaVars, upsertVars, historyVars>>

EmbeddingReturn ==
    /\ pc = "GetEmbedding"
    /\ \E resp \in EmbeddingResponses :
         \E res \in {GetEmbedding(NewWithProvider(cfg.EmbeddingProvider,
                                                   cfg.OpenAIAPIKey).provider, resp)} :
            /\ responses' = Append(responses, resp)
            /\ embeddingVector' = res.vec
            /\ Continue("GetEmbedding", res.err, afterGetEmbedding(res))
    /\ UNCHANGED <<store, args, year, cfg, llmResp, results>>
    /\ UNCHANGED parserVars
    /\ UNCHANGED addVars
    /\ UNCHANGED <<schemaVars, upsertVars, historyVars>>

SearchReturn ==
    /\ pc = "SimilaritySearch"
    /\ \E fault \in BOOLEAN :
         \E res \in SimilaritySearch(store, fault \/ ~Comparable(schema, store,
                                          BackendDimension(EmbeddingBackend(cfg.EmbeddingProvider))),
                                      embeddingVector, 1) :
            /\ responses' = Append(responses, res)
            /\ results' = res.specs
            /\ Continue("SimilaritySearch", res.err, afterSimilaritySearch(res))
    /\ UNCHANGED <<store, args, year, cfg, llmResp, embeddingVector>>
    /\ UNCHANGED parserVars
    /\ UNCHANGED addVars
    /\ UNCHANGED <<schemaVars, upsertVars, historyVars>>

\* variant: the record of the fallback provider is written to the table
LLMReturn_CacheBack ==
    /\ pc = "QueryEVSpecs"
    /\ \E resp \in LLMResponses :
         \E res \in {QueryEVSpecs(llmNewWithProvider(cfg.LLMProvider,
                                                      cfg.AnthropicAPIKey).provider,
                                   resp, args.make, args.model, year)} :
            /\ responses' = Append(responses, resp)
            /\ llmResp' = resp
            /\ Continue("QueryEVSpecs", res.err, afterQueryEVSpecs(res))
    /\ store' = IF output' = Nil THEN store
                ELSE store \cup {Row(o.make, o.model, o.year, o.capacity, o.power,
                                      o.chemistry, embeddingVector) : o \in output'}
    /\ UNCHANGED <<args, year, cfg, embeddingVector, results>>
    /\ UNCHANGED parserVars
    /\ UNCHANGED addVars
    /\ UNCHANGED <<schemaVars, upsertVars, historyVars>>

LLMReturn ==
    /\ pc = "QueryEVSpecs"
    /\ \E resp \in LLMResponses :
         \E res \in {QueryEVSpecs(llmNewWithProvider(cfg.LLMProvider,
                                                      cfg.AnthropicAPIKey).provider,
                                   resp, args.make, args.model, year)} :
            /\ responses' = Append(responses, resp)
            /\ llmResp' = resp
            /\ Continue("QueryEVSpecs", res.err, afterQueryEVSpecs(res))
    /\ UNCHANGED <<store, args, year, cfg, embeddingVector, results>>
    /\ UNCHANGED parserVars
    /\ UNCHANGED addVars
    /\ UNCHANGED <<schemaVars, upsertVars, historyVars>>

\* the process ends; the next invocation starts from nothing but the store
QueryExit ==
    /\ pc = "done"
    /\ pc' = "idle"
    /\ args' = <<>>
    /\ year' = 0
    /\ cfg' = <<>>
    /\ trace' = <<>>
    /\ output' = Nil
    /\ err' = NoError
    /\ llmResp' = NoResponse
    /\ dbClient' = "nil"
    /\ embeddingVector' = <<>>
    /\ results' = <<>>
    /\ queryText' = <<>>
    /\ responses' = <<>>
    /\ UNCHANGED store
    /\ UNCHANGED parserVars
    /\ UNCHANGED addVars
    /\ UNCHANGED <<schemaVars, upsertVars, historyVars>>

(***************************************************************************)
(* cmd: the add command                                                    *)
(***************************************************************************)
\* variant: the add command embeds a text that names the chemistry as well
runAdd_OwnText(rows, a, capacity, power, chemistry, env, reachable, resp, fault) ==
    LET y == Atoi(a.year)
        c == NewConfig(env)
        queryTextOfAdd == BuildQueryText(a.make, a.model, y.val) \o <<" ">> \o chemistry
        embeddingSvc == New(c.cfg.OpenAIAPIKey)
        emb == GetEmbedding(embeddingSvc.provider, resp)
        spec == EVSpec(a.make, a.model, y.val, capacity, power, chemistry, 0, "")
        ins == InsertEVSpec(rows, fault, spec, emb.vec)
    IN IF ~y.ok
       THEN [rows |-> rows, err |-> <<"invalid year">>, calls |-> <<>>, text |-> <<>>,
             svc |-> NoService]
       ELSE IF c.err # NoError
       THEN [rows |-> rows, err |-> <<"failed to load configuration">> \o c.err,
             calls |-> <<>>, text |-> <<>>, svc |-> NoService]
       ELSE IF ~reachable
       THEN [rows |-> rows,
             err |-> <<"failed to connect to database", "failed to ping database">>,
             calls |-> <<"db.New">>, text |-> <<>>, svc |-> NoService]
       ELSE IF emb.err # NoError
       THEN [rows |-> rows, err |-> <<"failed to generate embedding">> \o emb.err,
             calls |-> <<"db.New", "GetEmbedding">>, text |-> queryTextOfAdd,
             svc |-> embeddingSvc]
       ELSE IF ins.err # NoError
       THEN [rows |-> rows, err |-> <<"failed to insert spec">> \o ins.err,
             calls |-> <<"db.New", "GetEmbedding", "InsertEVSpec">>,
             text |-> queryTextOfAdd, svc |-> embeddingSvc]
       ELSE [rows |-> ins.rows, err |-> NoError,
             calls |-> <<"db.New", "GetEmbedding", "InsertEVSpec">>,
             text |-> queryTextOfAdd, svc |-> embeddingSvc]

\* variant: when the embedding fails the record is stored without one
runAdd_WithoutEmbedding(rows, a, capacity, power, chemistry, env, reachable, resp, fault) ==
    LET y == Atoi(a.year)
        c == NewConfig(env)
        queryTextOfAdd == BuildQueryText(a.make, a.model, y.val)
        embeddingSvc == New(c.cfg.OpenAIAPIKey)
        emb == GetEmbedding(embeddingSvc.provider, resp)
        spec == EVSpec(a.make, a.model, y.val, capacity, power, chemistry, 0, "")
        ins == InsertEVSpec(rows, fault, spec, emb.vec)
    IN IF ~y.ok
       THEN [rows |-> rows, err |-> <<"invalid year">>, calls |-> <<>>, text |-> <<>>,
             svc |-> NoService]
       ELSE IF c.err # NoError
       THEN [rows |-> rows, err |-> <<"failed to load configuration">> \o c.err,
             calls |-> <<>>, text |-> <<>>, svc |-> NoService]
       ELSE IF ~reachable
       THEN [rows |-> rows,
             err |-> <<"failed to connect to database", "failed to ping database">>,
             calls |-> <<"db.New">>, text |-> <<>>, svc |-> NoService]
       ELSE IF emb.err # NoError
       THEN [rows |-> {r \in rows : ~(r.make = a.make /\ r.model = a.model /\ r.year = y.val)}
                      \cup {Row(a.make, a.model, y.val, capacity, power, chemistry,
                                NullEmbedding)},
             err |-> <<"failed to generate embedding">> \o emb.err,
             calls |-> <<"db.New", "GetEmbedding", "InsertEVSpec">>,
             text |-> queryTextOfAdd, svc |-> embeddingSvc]
       ELSE IF ins.err # NoError
       THEN [rows |-> rows, err |-> <<"failed to insert spec">> \o ins.err,
             calls |-> <<"db.New", "GetEmbedding", "InsertEVSpec">>,
             text |-> queryTextOfAdd, svc |-> embeddingSvc]
       ELSE [rows |-> ins.rows, err |-> NoError,
             calls |-> <<"db.New", "GetEmbedding", "InsertEVSpec">>,
             text |-> queryTextOfAdd, svc |-> embeddingSvc]

\* runAdd: the rows of the table after the command, the error it returns,
\* the collaborators it contacted and the text it had embedded
runAdd(rows, a, capacity, power, chemistry, env, reachable, resp, fault) ==
    LET y == Atoi(a.year)
        c == NewConfig(env)
        queryTextOfAdd == BuildQueryText(a.make, a.model, y.val)
        embeddingSvc == New(c.cfg.OpenAIAPIKey)
        emb == GetEmbedding(embeddingSvc.provider, resp)
        spec == EVSpec(a.make, a.model, y.val, capacity, power, chemistry, 0, "")
        ins == InsertEVSpec(rows, fault, spec, emb.vec)
    IN IF ~y.ok
       THEN [rows |-> rows, err |-> <<"invalid year">>, calls |-> <<>>, text |-> <<>>,
             svc |-> NoService]
       ELSE IF c.err # NoError
       THEN [rows |-> rows, err |-> <<"failed to load configuration">> \o c.err,
             calls |-> <<>>, text |-> <<>>, svc |-> NoService]
       ELSE IF ~reachable
       THEN [rows |-> rows,
             err |-> <<"failed to connect to database", "failed to ping database">>,
             calls |-> <<"db.New">>, text |-> <<>>, svc |-> NoService]
       ELSE IF emb.err # NoError
       THEN [rows |-> rows, err |-> <<"failed to generate embedding">> \o emb.err,
             calls |-> <<"db.New", "GetEmbedding">>, text |-> queryTextOfAdd,
             svc |-> embeddingSvc]
       ELSE IF ins.err # NoError
       THEN [rows |-> rows, err |-> <<"failed to insert spec">> \o ins.err,
             calls |-> <<"db.New", "GetEmbedding", "InsertEVSpec">>,
             text |-> queryTextOfAdd, svc |-> embeddingSvc]
       ELSE [rows |-> ins.rows, err |-> NoError,
             calls |-> <<"db.New", "GetEmbedding", "InsertEVSpec">>,
             text |-> queryTextOfAdd, svc |-> embeddingSvc]

\* whether the server refuses the insert of a vector of the backend of the
\* add command, which is OpenAI, into the column as it is
Refused(version) ==
    ~ColumnAccepts(version, BackendDimension(EmbeddingBackend(New("").provider)))

Add ==
    /\ \E in \in AddInputs :
         store' = runAdd(store, in.a, in.capacity, in.power, in.chemistry, in.env,
                         in.reachable, in.resp, in.fault \/ Refused(schema)).rows
    /\ UNCHANGED <<pc, args, year, cfg, trace, output, err, llmResp, dbClient,
                   embeddingVector, results, queryText, responses>>
    /\ UNCHANGED parserVars
    /\ UNCHANGED addVars
    /\ UNCHANGED <<schemaVars, upsertVars, historyVars>>

\* The add command on its own, observed with its command line and its
\* result
AddInit ==
    /\ IdlePipeline
    /\ ptext = <<>>
    /\ pquery = <<>>
    /\ presult = NotParsed

\* the add command is run with one of the command lines and environments
\* of commands
AddCommandOn(commands) ==
    /\ \E in \in commands :
         \E res \in {runAdd(store, in.a, in.capacity, in.power, in.chemistry, in.env,
                            in.reachable, in.resp, in.fault \/ Refused(schema))} :
            /\ store' = res.rows
            /\ added' = [in |-> in, before |-> store, err |-> res.err,
                         calls |-> res.calls, text |-> res.text, svc |-> res.svc,
                         column |-> schema]
    /\ UNCHANGED <<pc, args, year, cfg, trace, output, err, llmResp, dbClient,
                   embeddingVector, results, queryText, responses>>
    /\ UNCHANGED parserVars
    /\ UNCHANGED <<schemaVars, upsertVars, historyVars>>

AddCommand == AddCommandOn(AddCommands)

AddNext == AddCommand

AddSpec == AddInit /\ [][AddNext]_vars

\* The query command and the add command in the environments that name
\* other providers
ProviderAdds == AddInput(OneArgs, ProviderEnvs, {TRUE}, OneVector, {FALSE})

ProviderQuery == QueryStartOn(OneArgs, ProviderEnvs)

ProviderAdd == AddCommandOn(ProviderAdds)

ProviderInit ==
    /\ IdlePipeline
    /\ ptext = <<>>
    /\ pquery = <<>>
    /\ presult = NotParsed

ProviderNext ==
    \/ ProviderQuery
    \/ LookupReturn
    \/ EmbeddingReturn
    \/ SearchReturn
    \/ LLMReturn
    \/ QueryExit
    \/ ProviderAdd

ProviderSpec == ProviderInit /\ [][ProviderNext]_vars

(***************************************************************************)
(* cmd: the init and migrate commands                                      *)
(***************************************************************************)
\* m.Up(): the pending migrations in order.  000001 creates the table with
\* the column vector(1536); 000002 alters the type of the column to
\* vector(768), which the server refuses while a row holds a vector.
\* Nothing pending is no error.
MigrateUp(version, rows) ==
    IF version = 2 THEN [version |-> version, err |-> NoError]
    ELSE IF Embedded(rows) # {}
    THEN [version |-> 1, err |-> <<"failed to run migrations">>]
    ELSE [version |-> 2, err |-> NoError]

\* InitSchema is MigrateUp
InitSchema(version, rows) == MigrateUp(version, rows)

\* m.Steps(n) for one step forward or back between the migrations of the
\* repository
MigrateSteps(version, rows, n) ==
    IF n = 1 /\ version = 0 THEN [version |-> 1, err |-> NoError]
    ELSE IF (n = 1 /\ version = 1) \/ (n = 0 - 1 /\ version = 2)
    THEN IF Embedded(rows) # {}
         THEN [version |-> version, err |-> <<"failed to run migration steps">>]
         ELSE [version |-> version + n, err |-> NoError]
    ELSE [version |-> version, err |-> <<"failed to run migration steps">>]

\* runInit: the version of the schema after the command, and its error
runInit(version, rows, env, reachable) ==
    LET c == NewConfig(env)
        up == InitSchema(version, rows)
    IN IF c.err # NoError
       THEN [version |-> version, err |-> <<"failed to load configuration">> \o c.err]
       ELSE IF ~reachable
       THEN [version |-> version,
             err |-> <<"failed to connect to database", "failed to ping database">>]
       ELSE IF up.err # NoError
       THEN [version |-> up.version, err |-> <<"failed to initialize schema">> \o up.err]
       ELSE [version |-> up.version, err |-> NoError]

\* runMigrate with the flag --steps n, or with the direction up when n is 0
runMigrate(version, rows, env, reachable, n) ==
    LET c == NewConfig(env)
        m == IF n # 0 THEN MigrateSteps(version, rows, n) ELSE MigrateUp(version, rows)
    IN IF c.err # NoError
       THEN [version |-> version, err |-> <<"failed to load configuration">> \o c.err]
       ELSE IF ~reachable
       THEN [version |-> version,
             err |-> <<"failed to connect to database", "failed to ping database">>]
       ELSE IF m.err # NoError
       THEN [version |-> m.version,
             err |-> <<IF n # 0 THEN "failed to run migration steps"
                       ELSE "failed to run migrations">> \o m.err]
       ELSE [version |-> m.version, err |-> NoError]

SchemaEnvs == {DefaultEnv, NoDatabaseEnv}

RunInit ==
    /\ \E env \in SchemaEnvs, reachable \in BOOLEAN :
         schema' = runInit(schema, store, env, reachable).version
    /\ UNCHANGED pipelineVars
    /\ UNCHANGED parserVars
    /\ UNCHANGED addVars
    /\ UNCHANGED <<upsertVars, historyVars>>

\* the steps whose migration is in the repository: the one back from
\* version 1 would drop the table
RunMigrate ==
    /\ \E env \in SchemaEnvs, reachable \in BOOLEAN, n \in {0 - 1, 0, 1} :
         /\ ~(n = 0 - 1 /\ schema = 1)
         /\ schema' = runMigrate(schema, store, env, reachable, n).version
    /\ UNCHANGED pipelineVars
    /\ UNCHANGED parserVars
    /\ UNCHANGED addVars
    /\ UNCHANGED <<upsertVars, historyVars>>

\* The commands that change the schema and the add command, from a database
\* to which no migration was applied
SchemaInit ==
    /\ store = {}
    /\ IdleCommand
    /\ added = NoAdd
    /\ schema = 0
    /\ upserts = NoUpserts
    /\ earlier = NoInvocation
    /\ last = Nil
    /\ ptext = <<>>
    /\ pquery = <<>>
    /\ presult = NotParsed

SchemaNext ==
    \/ RunInit
    \/ RunMigrate
    \/ AddCommand

SchemaSpec == SchemaInit /\ [][SchemaNext]_vars

(***************************************************************************)
(* cmd: two add commands side by side on the same table                    *)
(***************************************************************************)
\* the two invocations
Invocations == {1, 2}

\* the command lines: both name the same vehicle, the second with the make
\* in either spelling and with other values
UpsertInputs(p) ==
    IF p = 1
    THEN [a : OneArgs, capacity : {7500}, power : {28300}, chemistry : {NMC}]
    ELSE [a : Args2023, capacity : {6000}, power : {17000}, chemistry : {LFP}]

NotStarted == [pc |-> "idle", in |-> <<>>, vec |-> <<>>, err |-> NoError]

Exited(in, e) == [pc |-> "done", in |-> in, vec |-> <<>>, err |-> e]

\* runAdd up to its request to the embedding provider
UpsertStart(p) ==
    /\ upserts # NoUpserts
    /\ upserts[p].pc = "idle"
    /\ \E in \in UpsertInputs(p), reachable \in BOOLEAN :
         LET y == Atoi(in.a.year)
             c == NewConfig(DefaultEnv)
         IN upserts' = [upserts EXCEPT ![p] =
                IF ~y.ok
                THEN Exited(in, <<"invalid year">>)
                ELSE IF c.err # NoError
                THEN Exited(in, <<"failed to load configuration">> \o c.err)
                ELSE IF ~reachable
                THEN Exited(in, <<"failed to connect to database",
                                  "failed to ping database">>)
                ELSE [pc |-> "GetEmbedding", in |-> in, vec |-> <<>>,
                      err |-> NoError]]
    /\ UNCHANGED pipelineVars
    /\ UNCHANGED parserVars
    /\ UNCHANGED addVars
    /\ UNCHANGED <<schemaVars, historyVars>>

\* the provider answers: runAdd exits on an error and goes on to the insert
\* with the vector otherwise
UpsertEmbedded(p) ==
    /\ upserts # NoUpserts
    /\ upserts[p].pc = "GetEmbedding"
    /\ \E resp \in EmbeddingResponses :
         LET in == upserts[p].in
             embeddingSvc == New(NewConfig(DefaultEnv).cfg.OpenAIAPIKey)
             emb == GetEmbedding(embeddingSvc.provider, resp)
         IN upserts' = [upserts EXCEPT ![p] =
                IF emb.err # NoError
                THEN Exited(in, <<"failed to generate embedding">> \o emb.err)
                ELSE [pc |-> "InsertEVSpec", in |-> in, vec |-> emb.vec,
                      err |-> NoError]]
    /\ UNCHANGED pipelineVars
    /\ UNCHANGED parserVars
    /\ UNCHANGED addVars
    /\ UNCHANGED <<schemaVars, historyVars>>

\* the server executes the statement of InsertEVSpec, one statement at a
\* time for one key, and runAdd exits
UpsertInsert(p) ==
    /\ upserts # NoUpserts
    /\ upserts[p].pc = "InsertEVSpec"
    /\ \E fault \in BOOLEAN :
         LET u == upserts[p]
             spec == EVSpec(u.in.a.make, u.in.a.model, Atoi(u.in.a.year).val,
                            u.in.capacity, u.in.power, u.in.chemistry, 0, "")
         IN \E ins \in {InsertEVSpec(store, fault \/ Refused(schema), spec, u.vec)} :
              /\ store' = ins.rows
              /\ upserts' = [upserts EXCEPT ![p] =
                     [pc |-> "done", in |-> u.in, vec |-> u.vec,
                      err |-> IF ins.err # NoError
                              THEN <<"failed to insert spec">> \o ins.err
                              ELSE NoError]]
    /\ UNCHANGED <<pc, args, year, cfg, trace, output, err, llmResp, dbClient,
                   embeddingVector, results, queryText, responses>>
    /\ UNCHANGED parserVars
    /\ UNCHANGED addVars
    /\ UNCHANGED <<schemaVars, historyVars>>

UpsertInit ==
    /\ store \in InitialStores
    /\ IdleCommand
    /\ added = NoAdd
    /\ schema = 1
    /\ upserts = [p \in Invocations |-> NotStarted]
    /\ earlier = NoInvocation
    /\ last = Nil
    /\ ptext = <<>>
    /\ pquery = <<>>
    /\ presult = NotParsed

UpsertNext ==
    \E p \in Invocations :
        \/ UpsertStart(p)
        \/ UpsertEmbedded(p)
        \/ UpsertInsert(p)

UpsertSpec == UpsertInit /\ [][UpsertNext]_vars

(***************************************************************************)
(* cmd: query commands one after another, the first of them remembered     *)
(***************************************************************************)
\* the command lines of the queries and the one add command between them
RepeatedArgs == OneArgs \cup Args2022

RepeatedAdds ==
    [a : OneArgs, capacity : {7500}, power : {28300}, chemistry : {NMC},
     env : {DefaultEnv}, reachable : {TRUE}, resp : OneVector, fault : {FALSE}]

RepeatedQuery == QueryStartOn(RepeatedArgs, {DefaultEnv})

RepeatedAdd == AddCommandOn(RepeatedAdds)

\* what an invocation of the query command was given and what it came to
Invocation ==
    [args |-> args, store |-> store, responses |-> responses,
     output |-> output, err |-> err]

\* the process ends as in QueryExit; an observer may keep the first
\* invocation it chooses to, and notes the record that was printed last
QueryExitObserved ==
    /\ pc = "done"
    /\ earlier' \in {earlier} \cup
                    (IF earlier = NoInvocation THEN {Invocation} ELSE {})
    /\ last' = IF output # Nil THEN output ELSE last
    /\ pc' = "idle"
    /\ args' = <<>>
    /\ year' = 0
    /\ cfg' = <<>>
    /\ trace' = <<>>
    /\ output' = Nil
    /\ err' = NoError
    /\ llmResp' = NoResponse
    /\ dbClient' = "nil"
    /\ embeddingVector' = <<>>
    /\ results' = <<>>
    /\ queryText' = <<>>
    /\ responses' = <<>>
    /\ UNCHANGED store
    /\ UNCHANGED parserVars
    /\ UNCHANGED addVars
    /\ UNCHANGED <<schemaVars, upsertVars>>

RepeatedInit ==
    /\ IdlePipeline
    /\ ptext = <<>>
    /\ pquery = <<>>
    /\ presult = NotParsed

RepeatedNext ==
    \/ RepeatedQuery
    \/ LookupReturn
    \/ EmbeddingReturn
    \/ SearchReturn
    \/ LLMReturn
    \/ QueryExitObserved
    \/ RepeatedAdd

RepeatedSpec == RepeatedInit /\ [][RepeatedNext]_vars

Init ==
    /\ store \in InitialStores
    /\ IdleCommand
    /\ added = NoAdd
    /\ Settled
    /\ ptext = <<>>
    /\ pquery = <<>>
    /\ presult = NotParsed

Next ==
    \/ QueryStart
    \/ LookupReturn
    \/ EmbeddingReturn
    \/ SearchReturn
    \/ LLMReturn
    \/ QueryExit
    \/ Add

Spec == Init /\ [][Next]_vars

\* every collaborator call that was issued returns
CallsReturn ==
    /\ WF_vars(LookupReturn)
    /\ WF_vars(EmbeddingReturn)
    /\ WF_vars(SearchReturn)
    /\ WF_vars(LLMReturn)

\* The query command on a table that no other command changes meanwhile
QueryInit ==
    /\ store \in QueryStores
    /\ IdleCommand
    /\ added = NoAdd
    /\ Settled
    /\ ptext = <<>>
    /\ pquery = <<>>
    /\ presult = NotParsed

QueryNext ==
    \/ QueryStart
    \/ LookupReturn
    \/ EmbeddingReturn
    \/ SearchReturn
    \/ LLMReturn
    \/ QueryExit

QuerySpec == QueryInit /\ [][QueryNext]_vars

FairQuerySpec == QuerySpec /\ CallsReturn

(***************************************************************************)
(* Properties                                                              *)
(***************************************************************************)
Ops == <<"GetByMakeModelYear", "GetEmbedding", "SimilaritySearch", "QueryEVSpecs">>

Called(t, op) == \E i \in 1..Len(t) : t[i] = CallEvent(op)
CallCount(t, op) == Cardinality({i \in 1..Len(t) : t[i] = CallEvent(op)})
Succeeded(t, op) == \E i \in 1..Len(t) : t[i] = ReturnEvent(op, NoError)
Failed(t, op) == \E i \in 1..Len(t) : t[i] = <<"return", op, "error">>
LastEvent(t) == t[Len(t)]

\* the record of a row as the exact lookup reports it
ExactSpec(r) ==
    EVSpec(r.make, r.model, r.year, r.capacity_kwh, r.power_kw, r.chemistry,
           ExactConfidence, "database")

\* C1: when the exact lookup finds a record, the query command outputs that
\* record with confidence 1.0 and source "database" and ends without having
\* called the embedding provider, the similarity search or the LLM provider.
C1_ExactMatchShortCircuit ==
    [][(pc = "GetByMakeModelYear" /\ pc' # pc /\ Succeeded(trace', "GetByMakeModelYear")
        /\ ExactRows(store, args.make, args.model, year) # {})
       => /\ pc' = "done"
          /\ err' = NoError
          /\ \E r \in ExactRows(store, args.make, args.model, year) : output' = {ExactSpec(r)}
          /\ \A o \in output' : o.confidence = 100 /\ o.source = "database"
          /\ trace' = <<CallEvent("GetByMakeModelYear"),
                        ReturnEvent("GetByMakeModelYear", NoError)>>]_vars

C1_Witness ==
    /\ pc = "done"
    /\ trace = <<CallEvent("GetByMakeModelYear"), ReturnEvent("GetByMakeModelYear", NoError)>>
    /\ \E o \in output : o.confidence = 100 /\ o.source = "database" /\ o.make # args.make

\* the confidence of the nearest embedded row of the table, as the query sees it
IsNearest(o, rows, q) ==
    \A r \in rows : r.embedding # NullEmbedding =>
        100 - CosineDistance(r.embedding, q) <= o.confidence

C3_FallbackProvenance ==
    /\ \A o \in output : o.source = "llm" =>
          /\ o.confidence = 50
          /\ o.make = args.make /\ o.model = args.model /\ o.year = year
    /\ (pc = "done" /\ Succeeded(trace, "QueryEVSpecs")) =>
          /\ output # Nil
          /\ \A o \in output : o.source = "llm"
    /\ (pc = "done" /\ llmResp = [kind |-> "text", text |-> ExampleText]) =>
          output = {EVSpec(args.make, args.model, year, 13500, 20000, NMC, 50, "llm")}

C3_Witness ==
    /\ pc = "done"
    /\ store = {}
    /\ llmResp = [kind |-> "text", text |-> ExampleText]
    /\ \E o \in output : o.source = "llm" /\ o.capacity = 13500

\* C4: when the embedding provider fails, the query command ends with an
\* error, without having called the similarity search or the LLM provider and
\* without output.
C4_EmbeddingFailureIsFatal ==
    Failed(trace, "GetEmbedding") =>
        /\ pc = "done"
        /\ err # NoError
        /\ err[1] = "failed to get embedding"
        /\ output = Nil
        /\ ~Called(trace, "SimilaritySearch")
        /\ ~Called(trace, "QueryEVSpecs")

C4_Witness ==
    /\ Failed(trace, "GetEmbedding")
    /\ pc = "done"
    /\ store # {}

\* C5: an error of the exact lookup, of the similarity search or of the LLM
\* provider (request failure or status other than 200) ends the invocation
\* with an error and without output; no later collaborator is called.
C5_TransportErrorHalts ==
    /\ Failed(trace, "GetByMakeModelYear") =>
          /\ pc = "done" /\ err # NoError /\ output = Nil
          /\ ~Called(trace, "GetEmbedding")
          /\ ~Called(trace, "SimilaritySearch")
          /\ ~Called(trace, "QueryEVSpecs")
    /\ Failed(trace, "SimilaritySearch") =>
          /\ pc = "done" /\ err # NoError /\ output = Nil
          /\ ~Called(trace, "QueryEVSpecs")
    /\ (llmResp.kind \in LLMFailures) =>
          /\ pc = "done" /\ err # NoError /\ output = Nil
          /\ Failed(trace, "QueryEVSpecs")

C5_Witness ==
    /\ Failed(trace, "SimilaritySearch")
    /\ pc = "done"
    /\ err[1] = "similarity search error"

\* C6: the collaborator calls of an invocation are the exact lookup, the
\* embedding, the similarity search and the fallback generation in this
\* order, each call issued only after the call before it has returned, and
\* at most one call is pending.
C6_StrictOrder ==
    /\ Len(trace) <= 8
    /\ \A i \in 1..Len(trace) :
          /\ trace[i][1] = (IF i % 2 = 1 THEN "call" ELSE "return")
          /\ trace[i][2] = Ops[(i + 1) \div 2]
    /\ (pc \in {Ops[k] : k \in 1..4}) =>
          /\ Len(trace) % 2 = 1
          /\ LastEvent(trace) = CallEvent(pc)
    /\ (pc \in {"idle", "done"}) => Len(trace) % 2 = 0

C6_Witness ==
    /\ pc = "done"
    /\ Len(trace) = 8

\* C7: within an invocation each collaborator operation is called at most
\* once, also when it failed.
C7_NoRetry ==
    \A k \in 1..4 : CallCount(trace, Ops[k]) <= 1

C7_Witness ==
    /\ pc = "done"
    /\ Failed(trace, "QueryEVSpecs")
    /\ CallCount(trace, "QueryEVSpecs") = 1

\* no pattern of the parser occurs in the text
NothingRecognised(text) ==
    /\ capacityRe(text) = NoMatch
    /\ powerRe(text) = NoMatch
    /\ chemistryRe(text) = NoMatch

\* C8: when no field can be extracted from the answer of the LLM provider,
\* the query command fails with the parse error and without output; no
\* record with source "llm" has capacity 0, power 0 and an empty chemistry.
C8_ParseFailureIsTerminal ==
    /\ (llmResp.kind = "text" /\ NothingRecognised(llmResp.text)) =>
          /\ pc = "done"
          /\ output = Nil
          /\ Len(err) >= 2 /\ err[1] = "LLM query error"
          /\ err[Len(err)] \in {"no response from ollama",
                                 "failed to extract any specifications from response"}
    /\ \A o \in output : o.source = "llm" =>
          ~(o.capacity = 0 /\ o.power = 0 /\ o.chemistry = <<>>)

C8_Witness ==
    /\ pc = "done"
    /\ llmResp = [kind |-> "text", text |-> SegSorry]
    /\ err = <<"LLM query error", "failed to parse response",
               "failed to extract any specifications from response">>

Parsed == presult # NotParsed

\* a pattern of the parser occurs in the text
SomethingRecognised(text) == ~NothingRecognised(text)

\* the value of a numeric field after its pattern was applied
ExpectedNumber(m) ==
    IF m = NoMatch THEN 0
    ELSE IF ParseFloat(m[2]).ok THEN ParseFloat(m[2]).val ELSE 0

\* the value of the chemistry field after its pattern was applied
ExpectedChemistry(m) == IF m = NoMatch THEN <<>> ELSE TrimSpace(m[2])

\* a pattern gave a field a value other than the zero value
SomeValue(text) ==
    \/ ExpectedNumber(capacityRe(text)) # 0
    \/ ExpectedNumber(powerRe(text)) # 0
    \/ ExpectedChemistry(chemistryRe(text)) # <<>>

\* C9 as stated: a text in which at least one of the three patterns is
\* recognised is accepted and yields a record, also when the number is 0 or
\* not a float.
C9_RecognisedIsAccepted ==
    (Parsed /\ SomethingRecognised(ptext)) => (presult.err = NoError /\ presult.spec # Nil)

\* C9 amended: the parser fails exactly when no pattern gives a field a value
\* other than zero or the empty string; a text whose only recognised fields
\* are a number 0, a token that is not a float or a blank chemistry is
\* rejected.
C9_FailsIffNoValue ==
    Parsed =>
        /\ (presult.err = NoError) <=> SomeValue(ptext)
        /\ (presult.err = NoError) => presult.spec # Nil
        /\ (presult.err # NoError) => presult.spec = Nil /\ presult.err = ParseError

C9_Witness ==
    /\ Parsed
    /\ ptext = SegCapacityZero
    /\ presult.err = ParseError

\* C10: each field of the record is the value of its own pattern on the
\* text, whatever the other two patterns find; "Chemistry: NMC" alone gives
\* chemistry "NMC", capacity 0 and power 0.
C10_IndependentFields ==
    /\ (Parsed /\ presult.err = NoError) =>
          \A o \in presult.spec :
             /\ o.capacity = ExpectedNumber(capacityRe(ptext))
             /\ o.power = ExpectedNumber(powerRe(ptext))
             /\ o.chemistry = ExpectedChemistry(chemistryRe(ptext))
    /\ (Parsed /\ ptext = SegChemistry) =>
          presult = [spec |-> {EVSpec(pquery.make, pquery.model, pquery.year, 0, 0, NMC,
                                      LLMConfidenceScore, "llm")},
                     err |-> NoError]

C10_Witness ==
    /\ Parsed
    /\ ptext = SegChemistry
    /\ \E o \in presult.spec : o.chemistry = NMC /\ o.capacity = 0 /\ o.power = 0

\* the positions of the text at which the chemistry marker stands
MarkerPositions(text) == {i \in 1..Len(text) : HasPrefixFold(text, i, chemistryMarker)}

\* what follows the first chemistry marker on the marker's own line
MarkerLineRest(text) ==
    LET i == CHOOSE x \in MarkerPositions(text) : \A y \in MarkerPositions(text) : x <= y
        a == i + Len(chemistryMarker)
    IN SubSeq(text, a, LineEnd(text, a) - 1)

\* C11 as stated: the chemistry of the record is what follows the chemistry
\* marker up to the end of the marker's own line, trimmed: it holds no
\* newline, no leading or trailing white space, and nothing of a later line.
C11_ChemistryOnMarkerLine ==
    (Parsed /\ presult.err = NoError /\ MarkerPositions(ptext) # {}) =>
        \A o \in presult.spec :
            /\ \A i \in 1..Len(o.chemistry) : o.chemistry[i] # "\n"
            /\ o.chemistry = TrimSpace(o.chemistry)
            /\ o.chemistry = TrimSpace(MarkerLineRest(ptext))

\* the last add command reached the table and its insert succeeded
Inserted == added # NoAdd /\ added.err = NoError

\* the row r has the key (make, model, year) of the last add command
HasAddedKey(r) ==
    /\ r.make = added.in.a.make
    /\ r.model = added.in.a.model
    /\ r.year = Atoi(added.in.a.year).val

\* C12: after an add command that succeeded the table holds exactly one row
\* with the key of the command, that row carries the capacity, power,
\* chemistry and embedding of the command, and the rows with other keys are
\* the ones the table held before.
C12_UpsertIdempotent ==
    Inserted =>
        /\ Cardinality({r \in store : HasAddedKey(r)}) = 1
        /\ \A r \in store : HasAddedKey(r) =>
               /\ r.capacity_kwh = added.in.capacity
               /\ r.power_kw = added.in.power
               /\ r.chemistry = added.in.chemistry
               /\ r.embedding = added.in.resp.vec
        /\ {r \in store : ~HasAddedKey(r)} = {r \in added.before : ~HasAddedKey(r)}

C12_Witness ==
    /\ Inserted
    /\ \E r \in added.before :
          /\ HasAddedKey(r)
          /\ r.capacity_kwh # added.in.capacity
          /\ r.power_kw # added.in.power
          /\ r.chemistry # added.in.chemistry
          /\ r.embedding # added.in.resp.vec
    /\ \E r \in added.before : ~HasAddedKey(r)
    /\ Cardinality(store) = Cardinality(added.before)

\* the key of a row when make and model are compared without regard to case
FoldedKey(r) == <<Lower(r.make), Lower(r.model), r.year>>

\* C13 as stated: the table holds at most one row for each (lowercase(make),
\* lowercase(model), year); an add command for ('tesla', ..., 2023) after one
\* for ('Tesla', ..., 2023) overwrites that row.
C13_CaseInsensitiveUnique ==
    \A r1, r2 \in store : FoldedKey(r1) = FoldedKey(r2) => r1 = r2

\* the makes of the command lines that differ from mk in letter case at most
CaseVariants(mk) == {m \in {Tesla, TeslaLower} : Lower(m) = Lower(mk)}

\* the model years of the command lines and of the rows
LookupYears == {2021, 2022, 2023}

\* C14 as stated: the record an exact lookup returns (or its absence) is the
\* one every lookup returns whose make differs in letter case only and whose
\* year is equal; a lookup for another year never returns that record.
C14_LookupIgnoresCase ==
    [][(pc = "GetByMakeModelYear" /\ pc' # pc /\ Succeeded(trace', "GetByMakeModelYear"))
       => LET found == IF pc' = "done" THEN output' ELSE Nil
          IN /\ \A mk \in CaseVariants(args.make) :
                   \A o \in GetByMakeModelYear(store, FALSE, mk, args.model, year) :
                      o.spec = found
             /\ \A o \in found : o.year = year
             /\ \A y \in LookupYears \ {year} :
                   \A o \in GetByMakeModelYear(store, FALSE, args.make, args.model, y) :
                      o.spec \cap found = {}]_vars


\* the record of the row r as a search for the vector q reports it
SearchSpec(r, q) ==
    EVSpec(r.make, r.model, r.year, r.capacity_kwh, r.power_kw, r.chemistry,
           100 - CosineDistance(r.embedding, q), "database")

\* C15: a similarity search of the query command that succeeds returns at
\* most one record; it returns none exactly when no row has an embedding;
\* otherwise the record is that of a row with an embedding whose cosine
\* distance to the query vector is the smallest, with confidence 1 - distance
\* and source "database"; a row without embedding is never returned.
C15_NearestEmbedded ==
    [][(pc = "SimilaritySearch" /\ pc' # pc /\ Succeeded(trace', "SimilaritySearch"))
       => /\ Len(results') <= 1
          /\ (results' = <<>>) <=> (Embedded(store) = {})
          /\ Embedded(store) # {} =>
                \E r \in Embedded(store) :
                   /\ \A x \in Embedded(store) :
                         CosineDistance(r.embedding, embeddingVector)
                            <= CosineDistance(x.embedding, embeddingVector)
                   /\ results'[1] = SearchSpec(r, embeddingVector)
          /\ \A i \in 1..Len(results') : \A r \in store \ Embedded(store) :
                <<results'[i].make, results'[i].model, results'[i].year>>
                   # <<r.make, r.model, r.year>>]_vars

C15_Witness ==
    /\ pc = "QueryEVSpecs"
    /\ LastEvent(trace) = CallEvent("QueryEVSpecs")
    /\ Len(results) = 1
    /\ LegacyRow \in store
    /\ \E r \in Embedded(store) : results[1] = SearchSpec(r, embeddingVector)
    /\ \E r \in Embedded(store) :
          100 - CosineDistance(r.embedding, embeddingVector) < results[1].confidence

\* the result of the add command for the input in on the table rows
RunAddOn(rows, in) ==
    runAdd(rows, in.a, in.capacity, in.power, in.chemistry, in.env, in.reachable,
           in.resp, in.fault)

\* C16: a query command whose year argument is not an integer ends with the
\* error "invalid year" without having loaded the configuration, connected
\* to the database or called a collaborator, outputs nothing and leaves the
\* table as it is; an add command with such a year returns the same error
\* without contacting a collaborator and leaves the table as it is.
C16_YearValidatedFirst ==
    /\ [][(pc = "idle" /\ pc' # pc /\ ~Atoi(args'.year).ok)
          => /\ pc' = "done"
             /\ err' = <<"invalid year">>
             /\ trace' = <<>>
             /\ dbClient' = "nil"
             /\ cfg' = <<>>
             /\ output' = Nil
             /\ store' = store]_vars
    /\ [](\A in \in AddInputs : ~Atoi(in.a.year).ok =>
             RunAddOn(store, in) = [rows |-> store, err |-> <<"invalid year">>,
                                    calls |-> <<>>, text |-> <<>>,
                                    svc |-> NoService])

C16_Witness ==
    /\ pc = "done"
    /\ args.year = <<"2","0","x","3">>
    /\ err = <<"invalid year">>
    /\ trace = <<>>
    /\ store # {}
    /\ \E in \in AddInputs : RunAddOn(store, in).err = <<"invalid year">>

\* C17 as stated: when the query command has output a record of the LLM
\* provider, the table holds a row for the (make, model, year) of the query,
\* so that the next query for it is answered by the exact lookup.
C17_CacheBack ==
    (pc = "done" /\ output # Nil /\ \A o \in output : o.source = "llm")
        => ExactRows(store, args.make, args.model, year) # {}

\* the add command for the input in on the table rows reaches the embedding
\* provider
Embeds(rows, in) ==
    \E i \in 1..Len(RunAddOn(rows, in).calls) : RunAddOn(rows, in).calls[i] = "GetEmbedding"

\* "Tesla M3 2023 battery specifications"
TeslaM3Text ==
    Tesla \o <<" ">> \o Model3 \o <<" ","2","0","2","3">> \o BatterySpecifications

\* C18: the text the query command has embedded is the text every add
\* command with the same make, model and year embeds, whatever its flags,
\* its environment and the table hold; for Tesla M3 2023 it is
\* "Tesla M3 2023 battery specifications".
C18_SameEmbeddingText ==
    Called(trace, "GetEmbedding") =>
        /\ \A in \in AddCommands :
              (in.a = args /\ Embeds(store, in)) => RunAddOn(store, in).text = queryText
        /\ (args.make = Tesla /\ year = 2023) => queryText = TeslaM3Text

C18_Witness ==
    /\ Called(trace, "GetEmbedding")
    /\ args.make = TeslaLower
    /\ year = 2023
    /\ queryText # <<>>
    /\ \E in \in AddCommands :
          in.a = args /\ in.capacity = 6000 /\ RunAddOn(store, in).text = queryText

\* C20 as stated: with LLM_PROVIDER unset the fallback request goes to the
\* Claude API: the configured provider is "claude", and a refusal of the
\* request is reported as an error of the Claude API.
C20_DefaultProviderIsClaude ==
    (Called(trace, "QueryEVSpecs") /\ cfg = NewConfig(DefaultEnv).cfg) =>
        /\ cfg.LLMProvider = "claude"
        /\ (pc = "done" /\ llmResp.kind = "status")
              => err = <<"LLM query error", "claude API error">>

\* the step of the pipeline that failed in this invocation
FailingStep ==
    IF Failed(trace, "GetByMakeModelYear") THEN "exact-lookup"
    ELSE IF Failed(trace, "GetEmbedding") THEN "embedding"
    ELSE IF Failed(trace, "SimilaritySearch") THEN "similarity-search"
    ELSE IF Failed(trace, "QueryEVSpecs")
    THEN (IF llmResp.kind = "text" /\ llmResp.text # <<>> THEN "parse"
          ELSE "fallback-generation")
    ELSE "none"

\* the step an error names by its wrapping context
StepOfError(e) ==
    IF e = NoError THEN "none"
    ELSE IF e[1] = "database query error" THEN "exact-lookup"
    ELSE IF e[1] = "failed to get embedding" THEN "embedding"
    ELSE IF e[1] = "similarity search error" THEN "similarity-search"
    ELSE IF e[1] = "LLM query error" /\ Len(e) > 1 /\ e[2] = "failed to parse response"
    THEN "parse"
    ELSE IF e[1] = "LLM query error" /\ Len(e) > 1 THEN "fallback-generation"
    ELSE "unknown"

\* C19: when the exact lookup, the embedding, the similarity search, the
\* fallback request or the parsing of its answer fails, the query command
\* ends with an error and without output, and the wrapping context of the
\* error names the step that failed and none of the other four.
C19_ErrorsNameTheStep ==
    /\ (FailingStep # "none") =>
          /\ pc = "done"
          /\ err # NoError
          /\ output = Nil
          /\ StepOfError(err) = FailingStep
    /\ (pc = "done" /\ trace # <<>> /\ FailingStep = "none") => err = NoError

C19_Witness ==
    /\ pc = "done"
    /\ FailingStep = "parse"
    /\ cfg.LLMProvider = "ollama"
    /\ err = <<"LLM query error", "failed to parse response">> \o ParseError

\* C21: every record the query command outputs has a confidence between 0
\* and 1 and the source "database" or "llm"; a "database" record has
\* confidence 1.0 or at least 0.8, an "llm" record has confidence 0.5; the
\* result of a search with a negative confidence is never output.
C21_ProvenanceRange ==
    /\ \A o \in output :
          /\ o.confidence >= 0 /\ o.confidence <= 100
          /\ o.source \in {"database", "llm"}
          /\ o.source = "database" => (o.confidence = 100 \/ o.confidence >= 80)
          /\ o.source = "llm" => o.confidence = 50
    /\ \A i \in 1..Len(results) : results[i].confidence < 0 => results[i] \notin output

C21_Witness ==
    /\ pc = "done"
    /\ Len(results) = 1
    /\ results[1].confidence < 0
    /\ \E o \in output : o.source = "llm" /\ o.confidence = 50

\* the number of collaborator calls of this invocation
CallsIssued == Cardinality({i \in 1..Len(trace) : trace[i][1] = "call"})

\* C25: an invocation of the query command whose collaborator calls all
\* return ends; it issues at most four collaborator calls; when it has
\* ended, either exactly one record is output and no error is returned, or an
\* error is returned and no record is output.
C25_TerminatesWithOneOutcome ==
    /\ [](CallsIssued <= 4)
    /\ [](pc = "done" => \/ (Cardinality(output) = 1 /\ err = NoError)
                         \/ (output = Nil /\ err # NoError))
    /\ [](pc \notin {"idle", "done"} => output = Nil /\ err = NoError)
    /\ ((pc \notin {"idle", "done"}) ~> (pc = "done"))

C25_Witness ==
    /\ pc = "done"
    /\ CallsIssued = 4
    /\ Cardinality(output) = 1
    /\ err = NoError

NotAFloat(m) == m # NoMatch /\ Cardinality(Dots(m[2])) > 1

\* C30: the parser never produces a negative capacity or power; a token
\* that matches the pattern of a field but is not a float ("1.2.3") leaves
\* the field at 0, and the text is still accepted when another field has a
\* value.
C30_NonNegativeNumbers ==
    Parsed =>
        /\ \A o \in presult.spec : o.capacity >= 0 /\ o.power >= 0
        /\ NotAFloat(capacityRe(ptext)) =>
               /\ \A o \in presult.spec : o.capacity = 0
               /\ (powerRe(ptext) # NoMatch /\ ~NotAFloat(powerRe(ptext))
                      /\ DecVal(SelectSeq(powerRe(ptext)[2], IsDigit)) # 0) =>
                      presult.err = NoError /\ presult.spec # Nil
        /\ NotAFloat(powerRe(ptext)) => \A o \in presult.spec : o.power = 0

C30_Witness ==
    /\ Parsed
    /\ ptext = SegCapacityNeg \o SegCapacityBad \o SegPower
    /\ presult.err = NoError
    /\ \E o \in presult.spec : o.capacity = 0 /\ o.power = 20000

\* the last add command contacted the collaborator op
Contacted(op) == \E i \in 1..Len(added.calls) : added.calls[i] = op

\* the last add command stopped at the year, the configuration, the
\* connection or the embedding
StoppedEarly ==
    \/ ~Atoi(added.in.a.year).ok
    \/ NewConfig(added.in.env).err # NoError
    \/ ~added.in.reachable
    \/ added.in.resp.kind # "vector"

\* C29: an add command that stops at the year, the configuration, the
\* connection or the embedding attempts no insert; an add command that
\* returns an error leaves the table as it was; every row an add command
\* writes has the key of its command line, the vector the provider answered
\* for the text of that key, and so never a null embedding.
C29_AllOrNothing ==
    added # NoAdd =>
        /\ StoppedEarly => (~Contacted("InsertEVSpec") /\ added.err # NoError)
        /\ added.err # NoError => store = added.before
        /\ \A r \in store \ added.before :
              /\ added.err = NoError
              /\ r.make = added.in.a.make /\ r.model = added.in.a.model
              /\ r.year = Atoi(added.in.a.year).val
              /\ added.text = BuildQueryText(r.make, r.model, r.year)
              /\ r.embedding = added.in.resp.vec
              /\ r.embedding # NullEmbedding

C29_Witness ==
    /\ added # NoAdd
    /\ added.in.resp.kind \in EmbeddingFailures
    /\ added.calls = <<"db.New", "GetEmbedding">>
    /\ added.before # {}
    /\ store = added.before

\* C24 as stated: the vectors of the configured embedding provider have the
\* dimension of the column embedding; with the default configuration and
\* all migrations applied, the vector an add command sends to the table and
\* the vector of a query have the dimension of the column.
C24_DimensionMatchesColumn ==
    /\ (added # NoAdd /\ Contacted("InsertEVSpec") /\ added.column # 0) =>
          BackendDimension(EmbeddingBackend(added.svc.provider))
              = ColumnDimension(added.column)
    /\ schema = 2 =>
          BackendDimension(EmbeddingBackend(NewConfig(DefaultEnv).cfg.EmbeddingProvider))
              = ColumnDimension(schema)

\* the embedding service of the running query command
QueryEmbeddingSvc == NewWithProvider(cfg.EmbeddingProvider, cfg.OpenAIAPIKey)

\* the LLM service of the running query command
QueryLLMSvc == llmNewWithProvider(cfg.LLMProvider, cfg.AnthropicAPIKey)

\* C27 as stated: in every configuration the add command and the query
\* command embed with the same provider: a query whose embedding request is
\* in flight goes to the backend that the last add command of the same
\* environment went to.
C27_SameEmbeddingProvider ==
    (/\ pc = "GetEmbedding"
     /\ added # NoAdd
     /\ Contacted("GetEmbedding")
     /\ responses[1].env = added.in.env) =>
        EmbeddingBackend(added.svc.provider) = EmbeddingBackend(QueryEmbeddingSvc.provider)

\* C28 as stated: whenever the configuration was accepted, a request that
\* goes to OpenAI carries a non-empty OpenAI key and a request that goes to
\* Claude a non-empty Anthropic key, whatever the names of the providers.
C28_KeyOfDispatchedProvider ==
    /\ (pc = "GetEmbedding" /\ EmbeddingBackend(QueryEmbeddingSvc.provider) = "openai") =>
          QueryEmbeddingSvc.openAIKey # ""
    /\ (pc = "QueryEVSpecs" /\ LLMBackend(QueryLLMSvc.provider) = "claude") =>
          QueryLLMSvc.anthropicKey # ""
    /\ (added # NoAdd /\ Contacted("GetEmbedding")
          /\ EmbeddingBackend(added.svc.provider) = "openai") =>
          added.svc.openAIKey # ""

\* the row an invocation of the add command writes
UpsertRow(p) ==
    LET u == upserts[p]
    IN Row(u.in.a.make, u.in.a.model, Atoi(u.in.a.year).val, u.in.capacity,
           u.in.power, u.in.chemistry, VectorIn(embeddingStr(u.vec)))

\* the invocation has exited after its insert succeeded
Wrote(p) == upserts[p].pc = "done" /\ upserts[p].err = NoError

\* C22 as stated: when two add commands for the same identity key run side
\* by side and have both exited, at least one of them with success, the table
\* holds exactly one row for that key (make and model compared without
\* regard to case), and that row is, field by field, the row of one of them.
C22_OneUnmixedRow ==
    (/\ upserts # NoUpserts
     /\ \A p \in Invocations : upserts[p].pc = "done"
     /\ \E p \in Invocations : Wrote(p)) =>
        \E w \in Invocations :
            /\ Wrote(w)
            /\ {r \in store : FoldedKey(r) = FoldedKey(UpsertRow(w))} = {UpsertRow(w)}

\* the invocation that is ending was given what the remembered one was
\* given: the command line, the table, and the answer of every collaborator
\* (the environment and the connection, the lookup, the embedding provider,
\* the search, the fallback provider)
SameAsEarlier ==
    /\ pc = "done"
    /\ earlier # NoInvocation
    /\ earlier.args = args
    /\ earlier.store = store
    /\ earlier.responses = responses

\* C23: a query command that is given the same command line, the same table
\* and the same answers of its collaborators as an earlier one ends with the
\* same outcome, the same record or the same error, whatever commands ran in
\* between.
C23_SameInputsSameOutcome ==
    SameAsEarlier => (output = earlier.output /\ err = earlier.err)

\* a query that the fallback provider resolved is repeated after another
\* query was resolved with another record
C23_Witness ==
    /\ SameAsEarlier
    /\ Called(trace, "QueryEVSpecs")
    /\ output # Nil
    /\ last # Nil
    /\ last # output

====
